---- MODULE Spec2Model ----
(***************************************************************************)
(* Model of anytree's TypedNode (src/anytree/node/typed_node.py) and of    *)
(* MutualLink (src/anytree/node/mutual_link.py).                           *)
(*                                                                         *)
(* A node holds one optional parent link and a list of child links; a      *)
(* link is a MutualLink(left = parent, right = child).  The public         *)
(* mutations are the parent setter and deleter, the children setter and    *)
(* deleter and the constructor with an initial parent or initial children. *)
(* Each of them is one action that runs the whole handler,                 *)
(* including the lifecycle hooks it calls.  The hooks are no-ops unless a  *)
(* subclass overrides them; an override may raise, which is modelled by    *)
(* the input `fail`: the index of the hook invocation of the call that     *)
(* raises (0: none does); it ranges over every hook invocation of the call.*)
(*                                                                         *)
(* MutualLink defines no __eq__, so list.remove compares links by          *)
(* identity.  A link is modelled by the record of its two ends; two        *)
(* distinct links with the same ends would need the same child attached    *)
(* twice to the same parent, which __attach asserts against.               *)
(***************************************************************************)
EXTENDS Integers, Sequences, FiniteSets, TLC

\* ------------------------------------------------------------------ bounds
NumNodes == 3
MaxLen == 2

Nodes == 1..NumNodes
None == 0

\* `self.__parent_link = None` is modelled by NoLink: a link built by
\* __attach always has both ends set and never equals it.
NoLink == [left |-> None, right |-> None]

MutualLink(left, right) == [left |-> left, right |-> right]

NoArgs == << >>

\* All lists of nodes of length at most MaxLen: the arguments of the
\* children setter (duplicates included).
RECURSIVE ListsUpTo(_)
ListsUpTo(k) ==
    IF k = 0 THEN { << >> }
    ELSE LET shorter == ListsUpTo(k - 1)
         IN shorter \cup { Append(l, n) : l \in { s \in shorter : Len(s) = k - 1 }, n \in Nodes }

NodeLists == ListsUpTo(MaxLen)

VARIABLES
    parent_link,      \* node -> its __parent_link (NoLink for None)
    child_links,      \* node -> its __child_links, a list of links
    call,             \* the latest public call and its arguments
    err,              \* how the latest call ended: "ok" or the error raised
    hooks,            \* the hook invocations of the latest call, in order,
                      \* each with the tree as it was at the invocation
    old_parent_link,  \* parent_link when the latest call began
    old_child_links   \* child_links when the latest call began

vars == << parent_link, child_links, call, err, hooks, old_parent_link, old_child_links >>

\* ------------------------------------------------------- reading the tree
\* A tree state T is a record with the fields parent_link and child_links;
\* during a call it also carries err, hooks and fail.

parent(T, n) ==
    IF T.parent_link[n] /= NoLink THEN T.parent_link[n].left ELSE None

\* The children getter missing the first link of the list.
children_misses_first(T, n) ==
    LET links == T.child_links[n]
        rights == [i \in 1..(Len(links) - 1) |-> links[i + 1].right]
    IN IF links = << >> THEN << >> ELSE SelectSeq(rights, LAMBDA x : x /= None)

children(T, n) ==
    LET links == T.child_links[n]
        rights == [i \in 1..Len(links) |-> links[i].right]
    IN SelectSeq(rights, LAMBDA x : x /= None)

\* The nodes from n up to the root.  On a cyclic structure the loop of the
\* source does not terminate; the walk is cut at the first repeated node.
RECURSIVE walk_up(_, _, _)
walk_up(T, node, seen) ==
    IF node = None \/ node \in seen THEN << >>
    ELSE << node >> \o walk_up(T, parent(T, node), seen \cup {node})

iter_path_reverse(T, n) == walk_up(T, n, {})

Reverse(s) == [i \in 1..Len(s) |-> s[Len(s) + 1 - i]]

path(T, n) == Reverse(iter_path_reverse(T, n))

ancestors(T, n) ==
    IF parent(T, n) = None THEN << >> ELSE path(T, parent(T, n))

Range(s) == { s[i] : i \in DOMAIN s }

\* ------------------------------------------------------ steps of a call
Raise(T, e) == [T EXCEPT !.err = e]

\* One hook invocation: recorded together with the tree the hook finds
\* when it is invoked, and raising when it is the fail-th one.
hook(T, name, self, arg, args) ==
    IF T.err /= "ok" THEN T
    ELSE LET found == [parent_link |-> T.parent_link, child_links |-> T.child_links]
             logged == [T EXCEPT !.hooks = Append(@, [hook |-> name, self |-> self,
                                                       arg |-> arg, args |-> args,
                                                       tree |-> found])]
         IN IF T.fail = 1 THEN [logged EXCEPT !.err = "HookError", !.fail = 0]
            ELSE IF T.fail > 1 THEN [logged EXCEPT !.fail = @ - 1]
            ELSE logged

\* check_loop without the walk over the ancestors.
check_loop_self_only(T, self, par) ==
    IF par = self THEN "LoopError"
    ELSE IF par = None THEN "AttributeError"
    ELSE "ok"

\* check_loop looking at the parent of the new parent only.
check_loop_parent_only(T, self, par) ==
    IF par = self THEN "LoopError"
    ELSE IF par = None THEN "AttributeError"
    ELSE IF parent(T, par) = self THEN "LoopError"
    ELSE "ok"

check_loop(T, self, par) ==
    IF par = self THEN "LoopError"
    ELSE IF par = None THEN "AttributeError"
    ELSE IF \E pc \in Range(ancestors(T, par)) : pc = self THEN "LoopError"
    ELSE "ok"

\* list.pop in the place of list.remove: drops the last element.
remove_pops_last(s, x) ==
    IF s = << >> THEN << >> ELSE SubSeq(s, 1, Len(s) - 1)

\* list.remove: drops the first element equal to x.
RECURSIVE remove(_, _)
remove(s, x) ==
    IF s = << >> THEN << >>
    ELSE IF Head(s) = x THEN Tail(s)
    ELSE << Head(s) >> \o remove(Tail(s), x)

\* detach that clears the parent link and leaves the parent's child list.
detach_keeps_child_link(T, self) ==
    IF T.err /= "ok" THEN T
    ELSE IF T.parent_link[self] = NoLink THEN T
    ELSE LET par == T.parent_link[self].left
             T1 == hook(T, "pre_detach", self, par, NoArgs)
             T2 == IF T1.err /= "ok" THEN T1
                   ELSE [T1 EXCEPT !.parent_link[self] = NoLink]
         IN hook(T2, "post_detach", self, par, NoArgs)

\* detach that returns right after the edit, without the _post_detach call.
detach_without_post_hook(T, self) ==
    IF T.err /= "ok" THEN T
    ELSE IF T.parent_link[self] = NoLink THEN T
    ELSE LET link == T.parent_link[self]
             par == link.left
             T1 == hook(T, "pre_detach", self, par, NoArgs)
         IN IF T1.err /= "ok" THEN T1
            ELSE [T1 EXCEPT !.child_links[par] = remove(@, link),
                            !.parent_link[self] = NoLink]

\* detach that edits the links first and calls _pre_detach afterwards.
detach_pre_hook_late(T, self) ==
    IF T.err /= "ok" THEN T
    ELSE IF T.parent_link[self] = NoLink THEN T
    ELSE LET link == T.parent_link[self]
             par == link.left
             T1 == [T EXCEPT !.child_links[par] = remove(@, link),
                             !.parent_link[self] = NoLink]
             T2 == hook(T1, "pre_detach", self, par, NoArgs)
         IN hook(T2, "post_detach", self, par, NoArgs)

detach(T, self) ==
    IF T.err /= "ok" THEN T
    ELSE IF T.parent_link[self] = NoLink THEN T
    ELSE LET link == T.parent_link[self]
             par == link.left
         IN IF par = None THEN Raise(T, "AssertionError: Tree is corrupt.")
            ELSE LET T1 == hook(T, "pre_detach", self, par, NoArgs)
                     T2 == IF T1.err /= "ok" THEN T1
                           ELSE IF link \notin Range(T1.child_links[par])
                                THEN Raise(T1, "ValueError")
                           ELSE [T1 EXCEPT !.child_links[par] = remove(@, link),
                                           !.parent_link[self] = NoLink]
                 IN hook(T2, "post_detach", self, par, NoArgs)

\* attach that sets the parent link and leaves the parent's child list.
attach_parent_link_only(T, self, par) ==
    IF T.err /= "ok" THEN T
    ELSE LET T1 == hook(T, "pre_attach", self, par, NoArgs)
             T2 == IF T1.err /= "ok" THEN T1
                   ELSE [T1 EXCEPT !.parent_link[self] = MutualLink(par, self)]
         IN hook(T2, "post_attach", self, par, NoArgs)

\* attach that calls _pre_attach after the edit instead of before it.
attach_pre_hook_late(T, self, par) ==
    IF T.err /= "ok" THEN T
    ELSE LET new_link == MutualLink(par, self)
             T1 == [T EXCEPT !.parent_link[self] = new_link,
                             !.child_links[par] = Append(@, new_link)]
             T2 == hook(T1, "pre_attach", self, par, NoArgs)
         IN hook(T2, "post_attach", self, par, NoArgs)

\* attach that appends the new link to the parent's child list and leaves the
\* node's own parent link unset.
attach_child_link_only(T, self, par) ==
    IF T.err /= "ok" THEN T
    ELSE IF par = None THEN Raise(T, "AttributeError")
    ELSE IF \E child \in Range(children(T, par)) : child = self
         THEN Raise(T, "AssertionError: Tree is corrupt.")
    ELSE LET T1 == hook(T, "pre_attach", self, par, NoArgs)
             T2 == IF T1.err /= "ok" THEN T1
                   ELSE [T1 EXCEPT !.child_links[par] = Append(@, MutualLink(par, self))]
         IN hook(T2, "post_attach", self, par, NoArgs)

\* attach that inserts the new link in front of the parent's existing links.
attach_inserts_first(T, self, par) ==
    IF T.err /= "ok" THEN T
    ELSE IF par = None THEN Raise(T, "AttributeError")
    ELSE IF \E child \in Range(children(T, par)) : child = self
         THEN Raise(T, "AssertionError: Tree is corrupt.")
    ELSE LET T1 == hook(T, "pre_attach", self, par, NoArgs)
             new_link == MutualLink(par, self)
             T2 == IF T1.err /= "ok" THEN T1
                   ELSE [T1 EXCEPT !.parent_link[self] = new_link,
                                   !.child_links[par] = << new_link >> \o @]
         IN hook(T2, "post_attach", self, par, NoArgs)

attach(T, self, par) ==
    IF T.err /= "ok" THEN T
    ELSE IF par = None THEN Raise(T, "AttributeError")
    ELSE IF \E child \in Range(children(T, par)) : child = self
         THEN Raise(T, "AssertionError: Tree is corrupt.")
    ELSE LET T1 == hook(T, "pre_attach", self, par, NoArgs)
             new_link == MutualLink(par, self)
             T2 == IF T1.err /= "ok" THEN T1
                   ELSE [T1 EXCEPT !.parent_link[self] = new_link,
                                   !.child_links[par] = Append(@, new_link)]
         IN hook(T2, "post_attach", self, par, NoArgs)

\* parent setter without the `self.parent is not parent` test.
parent_setter_always(T, self, par) ==
    IF T.err /= "ok" THEN T
    ELSE LET e == check_loop(T, self, par)
         IN IF e /= "ok" THEN Raise(T, e)
            ELSE attach(detach(T, self), self, par)

parent_setter(T, self, par) ==
    IF T.err /= "ok" THEN T
    ELSE LET e == check_loop(T, self, par)
         IN IF e /= "ok" THEN Raise(T, e)
            ELSE IF parent(T, self) /= par
                 THEN attach(detach(T, self), self, par)
                 ELSE T

parent_deleter(T, self) ==
    IF T.err /= "ok" THEN T
    ELSE IF parent(T, self) /= None THEN detach(T, self)
    ELSE T

\* check_children that never records the first element as seen.
check_children_skips_first(list) ==
    IF \E i, j \in DOMAIN list : 1 < i /\ i < j /\ list[i] = list[j] THEN "TreeError" ELSE "ok"

\* "ok", or TreeError when a node occurs twice in the list.
check_children(list) ==
    IF \E i, j \in DOMAIN list : i < j /\ list[i] = list[j] THEN "TreeError" ELSE "ok"

\* The children setter without its loop check ahead of the batch.
check_loop_all_skipped(T, self, list) == "ok"

\* The loop check ahead of the batch, made for the first member of the list only.
check_loop_all_first_only(T, self, list) ==
    IF list = << >> THEN "ok" ELSE check_loop(T, Head(list), self)

\* for child in children: child.__check_loop(self) -- the first error.
RECURSIVE check_loop_all(_, _, _)
check_loop_all(T, self, list) ==
    IF list = << >> THEN "ok"
    ELSE LET e == check_loop(T, Head(list), self)
         IN IF e /= "ok" THEN e ELSE check_loop_all(T, self, Tail(list))

\* for child in children: child.parent = self
RECURSIVE attach_each(_, _, _)
attach_each(T, self, list) ==
    IF list = << >> THEN T
    ELSE attach_each(parent_setter(T, Head(list), self), self, Tail(list))

children_setter(T, self, list) ==
    IF check_children(list) /= "ok" THEN Raise(T, check_children(list))
    ELSE IF check_loop_all(T, self, list) /= "ok" THEN Raise(T, check_loop_all(T, self, list))
    ELSE LET T1 == hook(T, "pre_attach_children", self, None, list)
             T2 == attach_each(T1, self, list)
             T3 == hook(T2, "post_attach_children", self, None, list)
         IN IF T3.err /= "ok" THEN T3
            ELSE IF Len(children(T3, self)) /= Len(list) THEN Raise(T3, "AssertionError")
            ELSE T3

\* The detaching loop run over the live child list: removing the current
\* child shifts the list, so every second child is skipped.
RECURSIVE detach_each_skipping(_, _)
detach_each_skipping(T, list) ==
    IF list = << >> THEN T
    ELSE detach_each_skipping(parent_deleter(T, Head(list)),
                              IF Len(list) >= 2 THEN Tail(Tail(list)) ELSE << >>)

\* for child in self.children: del child.parent
RECURSIVE detach_each(_, _)
detach_each(T, list) ==
    IF list = << >> THEN T
    ELSE detach_each(parent_deleter(T, Head(list)), Tail(list))

\* The children deleter handing self.children, read again after the
\* detaches, to _post_detach_children.
children_deleter_post_rereads(T, self) ==
    LET cs == children(T, self)
        T1 == hook(T, "pre_detach_children", self, None, cs)
        T2 == detach_each(T1, IF T1.err = "ok" THEN children(T1, self) ELSE << >>)
    IN hook(T2, "post_detach_children", self, None, children(T2, self))

children_deleter(T, self) ==
    LET cs == children(T, self)
        T1 == hook(T, "pre_detach_children", self, None, cs)
        T2 == detach_each(T1, IF T1.err = "ok" THEN children(T1, self) ELSE << >>)
    IN hook(T2, "post_detach_children", self, None, cs)

\* The constructor argument children=None; the lists handed to the
\* constructor hold nodes only, so none of them equals it.
NotGiven == << None >>

\* __init__ assigning the children before the parent.
init_children_first(T, self, par, list) ==
    LET T0 == [T EXCEPT !.parent_link[self] = NoLink, !.child_links[self] = << >>]
        T1 == IF list /= NotGiven THEN children_setter(T0, self, list) ELSE T0
    IN IF T1.err = "ok" /\ par /= None THEN parent_setter(T1, self, par) ELSE T1

\* TypedNode(value, parent, children)
init(T, self, par, list) ==
    LET T0 == [T EXCEPT !.parent_link[self] = NoLink, !.child_links[self] = << >>]
        T1 == IF par /= None THEN parent_setter(T0, self, par) ELSE T0
    IN IF T1.err = "ok" /\ list /= NotGiven THEN children_setter(T1, self, list) ELSE T1

\* ------------------------------------------------------ structural queries
\* anytree.iterators.PreOrderIter: the node, then the pre-order sequence of
\* each child, in child-list order.
RECURSIVE PreOrderIter(_, _)
RECURSIVE pre_order_each(_, _)
PreOrderIter(T, n) == << n >> \o pre_order_each(T, children(T, n))
pre_order_each(T, list) ==
    IF list = << >> THEN << >>
    ELSE PreOrderIter(T, Head(list)) \o pre_order_each(T, Tail(list))

\* anytree.iterators.PostOrderIter: the post-order sequence of each child,
\* in child-list order, then the node.
RECURSIVE PostOrderIter(_, _)
RECURSIVE post_order_each(_, _)
PostOrderIter(T, n) == post_order_each(T, children(T, n)) \o << n >>
post_order_each(T, list) ==
    IF list = << >> THEN << >>
    ELSE PostOrderIter(T, Head(list)) \o post_order_each(T, Tail(list))

is_leaf(T, n) == Len(children(T, n)) = 0

\* descendants that keeps the node itself (the [1:] slice forgotten).
descendants_with_self(T, n) == PreOrderIter(T, n)

descendants(T, n) == Tail(PreOrderIter(T, n))

leaves(T, n) == SelectSeq(PreOrderIter(T, n), LAMBDA node : is_leaf(T, node))

Max(S) == CHOOSE x \in S : \A y \in S : y <= x

RECURSIVE height(_, _)
height(T, n) ==
    IF Len(children(T, n)) = 0 THEN 0
    ELSE Max({ height(T, child) : child \in Range(children(T, n)) }) + 1

\* depth counting the nodes of the path instead of its edges.
depth_counts_nodes(T, n) == Len(iter_path_reverse(T, n))

\* The index of the last element of enumerate(self.iter_path_reverse()).
depth(T, n) == Len(iter_path_reverse(T, n)) - 1

\* The count of the last element of enumerate(PreOrderIter(self), 1).
size(T, n) == Len(PreOrderIter(T, n))

\* ------------------------------------------------------------ the machine
\* The tree before and after the latest call.
Now == [parent_link |-> parent_link, child_links |-> child_links]
Old == [parent_link |-> old_parent_link, child_links |-> old_child_links]

\* The running state of a call that begins in the current tree.
Begin(fail) ==
    [parent_link |-> parent_link, child_links |-> child_links,
     err |-> "ok", hooks |-> << >>, fail |-> fail]

\* The number of hook invocations of a call in which no hook raises: each
\* of them is a place where an overriding hook may raise.
HookCount(T) == Len(T.hooks)

NoCall == [op |-> "none", self |-> None, parent |-> None, children |-> << >>]

\* TypedNode(value): every node is constructed standalone.
Init ==
    /\ parent_link = [n \in Nodes |-> NoLink]
    /\ child_links = [n \in Nodes |-> << >>]
    /\ call = NoCall
    /\ err = "ok"
    /\ hooks = << >>
    /\ old_parent_link = [n \in Nodes |-> NoLink]
    /\ old_child_links = [n \in Nodes |-> << >>]

\* A call runs from a tree whose record of the previous call has been
\* dropped (see Forget), and leaves the record of itself.
Finish(T, c) ==
    /\ old_parent_link' = parent_link
    /\ old_child_links' = child_links
    /\ parent_link' = T.parent_link
    /\ child_links' = T.child_links
    /\ err' = T.err
    /\ hooks' = T.hooks
    /\ call' = c

\* self.parent = par
SetParent ==
    /\ call = NoCall
    /\ \E self \in Nodes, par \in Nodes \cup {None} :
           \E fail \in 0..HookCount(parent_setter(Begin(0), self, par)) :
               Finish(parent_setter(Begin(fail), self, par),
                      [op |-> "set_parent", self |-> self, parent |-> par, children |-> << >>])

\* del self.parent
DelParent ==
    /\ call = NoCall
    /\ \E self \in Nodes :
           \E fail \in 0..HookCount(parent_deleter(Begin(0), self)) :
               Finish(parent_deleter(Begin(fail), self),
                      [op |-> "del_parent", self |-> self, parent |-> None, children |-> << >>])

\* self.children = L
SetChildren ==
    /\ call = NoCall
    /\ \E self \in Nodes, list \in NodeLists :
           \E fail \in 0..HookCount(children_setter(Begin(0), self, list)) :
               Finish(children_setter(Begin(fail), self, list),
                      [op |-> "set_children", self |-> self, parent |-> None, children |-> list])

\* del self.children
DelChildren ==
    /\ call = NoCall
    /\ \E self \in Nodes :
           \E fail \in 0..HookCount(children_deleter(Begin(0), self)) :
               Finish(children_deleter(Begin(fail), self),
                      [op |-> "del_children", self |-> self, parent |-> None, children |-> << >>])

\* self = TypedNode(value, parent=par, children=list).  The new node is
\* one that no link refers to and that holds no link: in the links, which
\* are all the state there is, such a node does not differ from a newly
\* allocated one.  Its arguments exist before it does, so it is neither
\* par nor a member of list.
Construct ==
    /\ call = NoCall
    /\ \E self \in Nodes :
           /\ parent_link[self] = NoLink
           /\ child_links[self] = << >>
           /\ \E par \in (Nodes \ {self}) \cup {None},
                 list \in { l \in NodeLists : self \notin Range(l) } \cup {NotGiven} :
                  \E fail \in 0..HookCount(init(Begin(0), self, par, list)) :
                      Finish(init(Begin(fail), self, par, list),
                             [op |-> "init", self |-> self, parent |-> par, children |-> list])

\* Bookkeeping, not a step of the program: the record of the latest call
\* (call, err, hooks and the tree it began in) is dropped, the tree itself
\* stays as it is.  The next call runs from the resulting state, so every
\* sequence of calls is a behaviour, with a Forget between two calls.
Forget ==
    /\ call /= NoCall
    /\ call' = NoCall
    /\ err' = "ok"
    /\ hooks' = << >>
    /\ old_parent_link' = parent_link
    /\ old_child_links' = child_links
    /\ UNCHANGED << parent_link, child_links >>

Next == SetParent \/ DelParent \/ SetChildren \/ DelChildren \/ Construct \/ Forget

Spec == Init /\ [][Next]_vars

\* ----------------------------------------------------- notions of the claims
\* The arguments of the latest call.
B == call.self
A == call.parent
L == call.children

Count(s, x) == Cardinality({ i \in DOMAIN s : s[i] = x })

\* The node reached from n by k parent steps (None once the root is passed).
RECURSIVE ParentAfter(_, _, _)
ParentAfter(T, n, k) ==
    IF n = None THEN None
    ELSE IF k = 0 THEN n
    ELSE ParentAfter(T, parent(T, n), k - 1)

\* The proper ancestors of n, read off the parent references.
AncestorSet(T, n) == { ParentAfter(T, n, k) : k \in 1..NumNodes } \ {None}

HasDuplicate(s) == \E x \in Range(s) : Count(s, x) > 1

Unchanged == Now = Old

HookNames == [i \in DOMAIN hooks |-> hooks[i].hook]

\* ------------------------------------------------------------------ claims

\* C1: in every reachable state, also after a call that ended in an error,
\* B.parent is A if and only if B occurs in A.children, then exactly once,
\* and no node occurs in the children of two different nodes.
C1_Bidirectional ==
    /\ \A a \in Nodes, b \in Nodes :
          /\ (parent(Now, b) = a) <=> (b \in Range(children(Now, a)))
          /\ Count(children(Now, a), b) <= 1
    /\ \A a1 \in Nodes, a2 \in Nodes, b \in Nodes :
          (b \in Range(children(Now, a1)) /\ b \in Range(children(Now, a2))) => a1 = a2

\* A children assignment that a raising hook stopped partway, after it had
\* already changed the tree.
C1_Witness ==
    /\ call.op = "set_children"
    /\ err = "HookError"
    /\ ~Unchanged

\* C2: in every reachable state no node is its own ancestor: following the
\* parent references from any node ends at a node without parent.
C2_NoCycle ==
    \A n \in Nodes :
        /\ ParentAfter(Now, n, NumNodes) = None
        /\ n \notin AncestorSet(Now, n)

\* A children assignment rejected because a member of the list is the
\* grandparent of the node.
C2_Witness ==
    /\ call.op = "set_children"
    /\ err = "LoopError"
    /\ \E c \in Range(L) : c /= B /\ c /= parent(Now, B) /\ c \in AncestorSet(Now, B)

\* C3: after B.parent = A succeeded, A not being B's parent before, B.parent
\* is A, B occurs once in A.children, as the last element, and B is no
\* longer among the children of its former parent.
C3_Reparent ==
    (call.op = "set_parent" /\ err = "ok" /\ A /= parent(Old, B)) =>
        /\ parent(Now, B) = A
        /\ Count(children(Now, A), B) = 1
        /\ children(Now, A)[Len(children(Now, A))] = B
        /\ parent(Old, B) /= None => B \notin Range(children(Now, parent(Old, B)))

\* B moved from a former parent to a node that already had a child.
C3_Witness ==
    /\ call.op = "set_parent"
    /\ err = "ok"
    /\ parent(Old, B) /= None
    /\ parent(Old, B) /= A
    /\ Len(children(Old, A)) >= 1
    /\ parent(Now, B) = A

\* C4: B.parent = A ends in LoopError exactly when A is B or B is an
\* ancestor of A, and then no hook has fired and no node's parent or
\* children have changed.
C4_LoopError ==
    call.op = "set_parent" =>
        /\ (err = "LoopError") <=> (A = B \/ (A /= None /\ B \in AncestorSet(Old, A)))
        /\ err = "LoopError" => (hooks = << >> /\ Unchanged)

\* B.parent = A rejected where B is the grandparent of A.
C4_Witness ==
    /\ call.op = "set_parent"
    /\ err = "LoopError"
    /\ A /= B
    /\ parent(Now, A) /= B
    /\ B \in AncestorSet(Now, A)

\* C5: assigning to B.parent the node that already is B's parent raises
\* nothing, fires no hook and changes no node's parent or children, so B
\* keeps its position among its siblings.
C5_SameParentNoOp ==
    (call.op = "set_parent" /\ A /= None /\ A = parent(Old, B)) =>
        /\ err = "ok"
        /\ hooks = << >>
        /\ Unchanged

\* B.parent = A where B already is a child of A, and not the last one.
C5_Witness ==
    /\ call.op = "set_parent"
    /\ A /= None
    /\ A = parent(Old, B)
    /\ Len(children(Now, A)) >= 2
    /\ children(Now, A)[1] = B

\* C6 (as stated): B.parent = None on a node with parent P, no hook
\* raising, ends without error with B removed from P.children, B.parent
\* None, the two detach hooks fired and no attach hook.
C6_ClearParent ==
    (call.op = "set_parent" /\ A = None /\ parent(Old, B) /= None /\ err /= "HookError") =>
        /\ err = "ok"
        /\ parent(Now, B) = None
        /\ B \notin Range(children(Now, parent(Old, B)))
        /\ HookNames = << "pre_detach", "post_detach" >>

\* C7: N.children = L ends in TreeError whenever a node occurs twice in L,
\* and then no hook has fired and no node's parent or children (their
\* order included) have changed.
C7_TreeError ==
    (call.op = "set_children" /\ HasDuplicate(L)) =>
        /\ err = "TreeError"
        /\ hooks = << >>
        /\ Unchanged

\* N.children = [X, X] where N has two children.
C7_Witness ==
    /\ call.op = "set_children"
    /\ HasDuplicate(L)
    /\ err = "TreeError"
    /\ Len(children(Now, B)) = 2
    /\ L[1] \in Range(children(Now, B))

\* Some member of L is N itself or an ancestor of N.
C8_Offending == \E c \in Range(L) : c = B \/ c \in AncestorSet(Old, B)

\* C8 (as stated): N.children = L ends in LoopError whenever a member of L
\* is N or an ancestor of N, and then the tree is unchanged and no hook
\* has fired.
C8_LoopErrorAsStated ==
    (call.op = "set_children" /\ C8_Offending) =>
        /\ err = "LoopError"
        /\ hooks = << >>
        /\ Unchanged

\* C8 (amended): N.children = L, L without duplicate, ends in LoopError
\* whenever a member of L is N or an ancestor of N; every member is checked
\* before the first mutation and the first hook, so the tree is unchanged.
C8_LoopError ==
    (call.op = "set_children" /\ ~HasDuplicate(L) /\ C8_Offending) =>
        /\ err = "LoopError"
        /\ hooks = << >>
        /\ Unchanged

\* The offending member comes after a valid one that was not yet a child
\* of N.
C8_Witness ==
    /\ call.op = "set_children"
    /\ err = "LoopError"
    /\ Len(L) = 2
    /\ L[1] /= B
    /\ L[1] \notin AncestorSet(Now, B)
    /\ parent(Now, L[1]) /= B
    /\ L[2] \in AncestorSet(Now, B)

\* C9 (as stated): after N.children = L succeeded, N.children equals L
\* element by element, in list order.
C9_ChildrenEqualList ==
    (call.op = "set_children" /\ err = "ok") => children(Now, B) = L

\* C10 (as stated): N.children = L, with L free of duplicates, of N and of
\* N's ancestors, and no hook raising, completes without error whatever
\* children N held: the former children not in L are detached and
\* len(N.children) = len(L).
C10_SetChildrenCompletes ==
    (call.op = "set_children" /\ ~HasDuplicate(L) /\ ~C8_Offending /\ err /= "HookError") =>
        /\ err = "ok"
        /\ Len(children(Now, B)) = Len(L)
        /\ \A c \in Range(children(Old, B)) : c \notin Range(L) => parent(Now, c) = None

\* C11 (as stated): when N.children = L raises after its duplicate and loop
\* checks have passed (a hook raised, or the final length check failed),
\* N.children is the list N held when the call began: same nodes, same
\* order.
C11_Rollback ==
    (call.op = "set_children" /\ err \notin {"ok", "TreeError", "LoopError"}) =>
        children(Now, B) = children(Old, B)

\* The nodes on which the hook `name` was invoked during the latest call,
\* in order of invocation.
RECURSIVE SelfsOf(_, _)
SelfsOf(log, name) ==
    IF log = << >> THEN << >>
    ELSE (IF Head(log).hook = name THEN << Head(log).self >> ELSE << >>)
         \o SelfsOf(Tail(log), name)

\* C12: del N.children, no hook raising, detaches every child of N, one at
\* a time in child-list order: N.children is empty, every former child has
\* no parent, every other node keeps its parent (N included) and every
\* node other than N its children.
C12_DelChildren ==
    (call.op = "del_children" /\ err = "ok") =>
        /\ children(Now, B) = << >>
        /\ \A c \in Range(children(Old, B)) : parent(Now, c) = None
        /\ \A n \in Nodes \ Range(children(Old, B)) : parent(Now, n) = parent(Old, n)
        /\ \A n \in Nodes \ {B} : children(Now, n) = children(Old, n)
        /\ SelfsOf(hooks, "pre_detach") = children(Old, B)
        /\ SelfsOf(hooks, "post_detach") = children(Old, B)

\* del N.children on a node that held two children.
C12_Witness ==
    /\ call.op = "del_children"
    /\ err = "ok"
    /\ Len(children(Old, B)) = 2
    /\ children(Now, B) = << >>

\* The hook invocations of the latest call: name, node and argument.
Calls == [i \in DOMAIN hooks |-> << hooks[i].hook, hooks[i].self, hooks[i].arg >>]

\* C13: a successful B.parent = Q on a node with parent P other than Q
\* fires _pre_detach(P), _post_detach(P), _pre_attach(Q), _post_attach(Q),
\* once each and in this order; on a node without parent the two attach
\* hooks only; a successful del B.parent on a node with parent P the two
\* detach hooks only.
C13_HookOrder ==
    LET P == parent(Old, B)
        detached == << << "pre_detach", B, P >>, << "post_detach", B, P >> >>
        attached == << << "pre_attach", B, A >>, << "post_attach", B, A >> >>
    IN /\ (call.op = "set_parent" /\ err = "ok" /\ A /= P) =>
              Calls = (IF P /= None THEN detached ELSE << >>) \o attached
       /\ (call.op = "del_parent" /\ err = "ok" /\ P /= None) =>
              Calls = detached

\* B.parent = Q moved B from P to Q and the four hooks fired.
C13_Witness ==
    /\ call.op = "set_parent"
    /\ err = "ok"
    /\ parent(Old, B) /= None
    /\ parent(Now, B) = A
    /\ parent(Old, B) /= A
    /\ Len(hooks) = 4

\* The parent references and the child lists of the tree T mirror each
\* other: b's parent is a exactly when b is among a's children, once.
Bidirectional(T) ==
    \A a \in Nodes, b \in Nodes :
        /\ (parent(T, b) = a) <=> (b \in Range(children(T, a)))
        /\ Count(children(T, a), b) <= 1

\* C14: every hook is invoked on a tree whose parent references and child
\* lists mirror each other, and sees the edit it brackets whole:
\* _pre_detach(P) finds B in P.children with parent P, _post_detach(P) finds
\* B absent from P.children and without parent, _pre_attach(Q) finds B
\* absent from Q.children and without parent, _post_attach(Q) finds B as
\* the last child of Q with parent Q.
C14_HooksSeeConsistentTree ==
    \A i \in DOMAIN hooks :
        LET h == hooks[i]
            S == h.tree
        IN /\ Bidirectional(S)
           /\ h.hook = "pre_detach" =>
                 (h.self \in Range(children(S, h.arg)) /\ parent(S, h.self) = h.arg)
           /\ h.hook = "post_detach" =>
                 (h.self \notin Range(children(S, h.arg)) /\ parent(S, h.self) = None)
           /\ h.hook = "pre_attach" =>
                 (h.self \notin Range(children(S, h.arg)) /\ parent(S, h.self) = None)
           /\ h.hook = "post_attach" =>
                 /\ children(S, h.arg) /= << >>
                 /\ children(S, h.arg)[Len(children(S, h.arg))] = h.self
                 /\ parent(S, h.self) = h.arg

\* A reparenting inside a children assignment: the four hooks of one child
\* have run between the two batch hooks.
C14_Witness ==
    /\ call.op = "set_children"
    /\ \E i \in DOMAIN hooks : hooks[i].hook = "post_detach"
    /\ \E i \in DOMAIN hooks : hooks[i].hook = "post_attach" /\ hooks[i].tree /= Old

BatchHooks ==
    { "pre_attach_children", "post_attach_children",
      "pre_detach_children", "post_detach_children" }

\* The hooks of the latest call are bracketed by the batch hooks `pre` and
\* `post` of node n with the list `list`: the first invocation is pre, no
\* batch hook follows but post as the very last invocation, and post has
\* run whenever the call returned.
Bracketed(pre, post, n, list) ==
    /\ hooks /= << >> =>
          (hooks[1].hook = pre /\ hooks[1].self = n /\ hooks[1].args = list)
    /\ \A i \in DOMAIN hooks :
          (i > 1 /\ hooks[i].hook \in BatchHooks) =>
              /\ i = Len(hooks)
              /\ hooks[i].hook = post
              /\ hooks[i].self = n
              /\ hooks[i].args = list
    /\ err = "ok" => (Len(hooks) >= 2 /\ hooks[Len(hooks)].hook = post)

\* C15: during N.children = L, _pre_attach_children(L) comes before the
\* first hook of any member of L and _post_attach_children(L) after the
\* last one; during del N.children the two detach batch hooks bracket the
\* detaches likewise and both receive the child list held when the call
\* began; a children assignment that fails its duplicate or loop check
\* fires no hook at all.
C15_BatchHooksBracket ==
    /\ call.op = "set_children" =>
          /\ Bracketed("pre_attach_children", "post_attach_children", B, L)
          /\ \A i \in DOMAIN hooks :
                hooks[i].hook \notin BatchHooks => hooks[i].self \in Range(L)
          /\ err \in {"TreeError", "LoopError"} => hooks = << >>
    /\ call.op = "del_children" =>
          /\ hooks /= << >>
          /\ Bracketed("pre_detach_children", "post_detach_children", B, children(Old, B))
          /\ \A i \in DOMAIN hooks :
                hooks[i].hook \notin BatchHooks => hooks[i].self \in Range(children(Old, B))

\* A children assignment of two nodes that returned: at least two hooks of
\* each member between the two batch hooks.
C15_Witness ==
    /\ call.op = "set_children"
    /\ err = "ok"
    /\ Len(L) = 2
    /\ Len(hooks) >= 6

\* The sequence s without the node x, the other elements in their order.
Without(s, x) == SelectSeq(s, LAMBDA y : y /= x)

\* C16: a successful del B.parent on a node with parent P removes B from
\* P.children, the other children of P keeping their order, sets B.parent
\* to None and changes no other parent reference and no other child list
\* (B's own children and descendants stay linked); on a node without
\* parent it raises nothing, fires no hook and changes nothing.
C16_DelParent ==
    LET P == parent(Old, B)
    IN call.op = "del_parent" =>
          /\ P = None => (err = "ok" /\ hooks = << >> /\ Unchanged)
          /\ (P /= None /\ err = "ok") =>
                /\ parent(Now, B) = None
                /\ children(Now, P) = Without(children(Old, P), B)
                /\ \A n \in Nodes \ {B} : parent(Now, n) = parent(Old, n)
                /\ \A n \in Nodes \ {P} : children(Now, n) = children(Old, n)

\* del B.parent where B was the first of the two children of P.
C16_Witness ==
    /\ call.op = "del_parent"
    /\ err = "ok"
    /\ parent(Old, B) /= None
    /\ Len(children(Old, parent(Old, B))) = 2
    /\ children(Old, parent(Old, B))[1] = B
    /\ parent(Now, B) = None

RECURSIVE SumOfSizes(_, _)
SumOfSizes(T, list) ==
    IF list = << >> THEN 0 ELSE size(T, Head(list)) + SumOfSizes(T, Tail(list))

\* C17: in every reachable tree and for every node n, size(n) is 1 plus the
\* sizes of n's children; height(n) is 0 without children and 1 plus the
\* largest height of a child otherwise; depth(n) is 0 without parent and
\* depth(n.parent) + 1 otherwise.
C17_SizeHeightDepth ==
    \A n \in Nodes :
        LET cs == children(Now, n)
        IN /\ size(Now, n) = 1 + SumOfSizes(Now, cs)
           /\ cs = << >> => height(Now, n) = 0
           /\ cs /= << >> =>
                 /\ \A c \in Range(cs) : height(Now, n) >= height(Now, c) + 1
                 /\ \E c \in Range(cs) : height(Now, n) = height(Now, c) + 1
           /\ parent(Now, n) = None => depth(Now, n) = 0
           /\ parent(Now, n) /= None => depth(Now, n) = depth(Now, parent(Now, n)) + 1

\* A parent assignment has just built a chain of three nodes.
C17_Witness ==
    /\ call.op = "set_parent"
    /\ err = "ok"
    /\ \E n \in Nodes : size(Now, n) = 3 /\ height(Now, n) = 2 /\ size(Old, n) < 3
    /\ \E n \in Nodes : depth(Now, n) = 2

RECURSIVE DescendantsOfEach(_, _)
DescendantsOfEach(T, list) ==
    IF list = << >> THEN << >>
    ELSE << Head(list) >> \o descendants(T, Head(list)) \o DescendantsOfEach(T, Tail(list))

RECURSIVE LeavesOfEach(_, _)
LeavesOfEach(T, list) ==
    IF list = << >> THEN << >>
    ELSE leaves(T, Head(list)) \o LeavesOfEach(T, Tail(list))

\* C18: in every reachable tree, read after the latest mutation, the
\* descendants of n are each child followed by that child's descendants,
\* in child-list order, n itself left out; the leaves of n are n itself
\* when n has no children and otherwise the leaves of its children, in
\* child-list order.
C18_DescendantsLeaves ==
    \A n \in Nodes :
        /\ descendants(Now, n) = DescendantsOfEach(Now, children(Now, n))
        /\ n \notin Range(descendants(Now, n))
        /\ leaves(Now, n) = IF children(Now, n) = << >> THEN << n >>
                            ELSE LeavesOfEach(Now, children(Now, n))
        /\ \A x \in Range(leaves(Now, n)) : children(Now, x) = << >>

\* The latest call changed the descendants of a node that now has two.
C18_Witness ==
    /\ call /= NoCall
    /\ \E n \in Nodes :
          /\ Len(descendants(Now, n)) = 2
          /\ descendants(Now, n) /= descendants(Old, n)
          /\ leaves(Now, n) /= leaves(Old, n)

\* The nodes of the subtree of r, read off the parent references.
Subtree(T, r) == {r} \cup { n \in Nodes : r \in AncestorSet(T, n) }

\* The place of x in the sequence s.
Pos(s, x) == CHOOSE i \in DOMAIN s : s[i] = x

\* Every node of the subtree of r occurs exactly once in s.
EachOnce(T, r, s) ==
    /\ Range(s) = Subtree(T, r)
    /\ Len(s) = Cardinality(Subtree(T, r))

\* In s the whole subtree of an earlier child of r comes before the whole
\* subtree of a later child.
ChildOrder(T, r, s) ==
    LET cs == children(T, r)
    IN \A i \in DOMAIN cs, j \in DOMAIN cs :
          i < j => \A x \in Subtree(T, cs[i]), y \in Subtree(T, cs[j]) :
                       Pos(s, x) < Pos(s, y)

\* C19: from any node r of a reachable tree the pre-order and the
\* post-order traversal yield the same nodes, every node of r's subtree
\* exactly once; r is the first in pre-order and the last in post-order;
\* in both the subtrees of r's children come in child-list order.
C19_PrePostOrder ==
    \A r \in Nodes :
        LET pre == PreOrderIter(Now, r)
            post == PostOrderIter(Now, r)
        IN /\ EachOnce(Now, r, pre)
           /\ EachOnce(Now, r, post)
           /\ pre[1] = r
           /\ post[Len(post)] = r
           /\ ChildOrder(Now, r, pre)
           /\ ChildOrder(Now, r, post)

\* A mutation has left a node r with two children: both orders hold the
\* children in child-list order, r first in one and last in the other.
C19_Witness ==
    /\ call /= NoCall
    /\ ~Unchanged
    /\ \E r \in Nodes :
          /\ Len(PreOrderIter(Now, r)) = 3
          /\ Len(children(Now, r)) = 2
          /\ PreOrderIter(Now, r) /= PostOrderIter(Now, r)
          /\ Tail(PreOrderIter(Now, r)) = SubSeq(PostOrderIter(Now, r), 1, 2)

\* The outcome of constructing the node standalone and then assigning
\* parent = A (when a parent was given) followed by children = L (when
\* children were given), from the tree the constructor began in and with
\* the same hook raising; a statement that raises ends the sequence.
Stepwise ==
    LET T0 == [parent_link |-> old_parent_link, child_links |-> old_child_links,
               err |-> "ok", hooks |-> << >>,
               fail |-> IF err = "HookError" THEN Len(hooks) ELSE 0]
        T1 == IF A /= None THEN parent_setter(T0, B, A) ELSE T0
    IN IF T1.err = "ok" /\ L /= NotGiven THEN children_setter(T1, B, L) ELSE T1

\* C20: constructing a node with an initial parent and/or initial children
\* gives the tree, the hook calls and the error of constructing it
\* standalone and then assigning the parent and then the children; when it
\* succeeds the members of the given list are the node's children, each
\* moved away from the parent it had.
C20_ConstructorAsAssignments ==
    call.op = "init" =>
        /\ parent_link = Stepwise.parent_link
        /\ child_links = Stepwise.child_links
        /\ err = Stepwise.err
        /\ hooks = Stepwise.hooks
        /\ (err = "ok" /\ L /= NotGiven) =>
              /\ children(Now, B) = L
              /\ \A c \in Range(L) :
                    /\ parent(Now, c) = B
                    /\ parent(Old, c) /= None => c \notin Range(children(Now, parent(Old, c)))

\* A node constructed with a parent and with a child that was a child of
\* another node before.
C20_Witness ==
    /\ call.op = "init"
    /\ err = "ok"
    /\ A /= None
    /\ L /= NotGiven
    /\ \E c \in Range(L) : parent(Old, c) /= None /\ parent(Now, c) = B
    /\ parent(Now, B) = A

\* C21: neither "Tree is corrupt" assertion ever fails: no call ends with that
\* assertion's error, every parent link a node holds has a node at its parent
\* end (what __detach asserts), and whenever __attach(parent) got as far as
\* _pre_attach the node was not among parent.children.
C21_NeverCorrupt ==
    /\ err /= "AssertionError: Tree is corrupt."
    /\ \A n \in Nodes : parent_link[n] /= NoLink => parent_link[n].left \in Nodes
    /\ \A i \in 1..Len(hooks) :
          hooks[i].hook = "pre_attach" =>
             hooks[i].self \notin Range(children(hooks[i].tree, hooks[i].arg))

\* A batch with no raising hook in which a member of L that had another parent
\* was detached from it and attached to N.
C21_Witness ==
    /\ call.op = "set_children"
    /\ err = "ok"
    /\ \E c \in Range(L) :
          /\ parent(Old, c) \notin {None, B}
          /\ parent(Now, c) = B
          /\ \E i \in 1..Len(hooks) : hooks[i].hook = "pre_detach" /\ hooks[i].self = c
          /\ \E i \in 1..Len(hooks) : hooks[i].hook = "pre_attach" /\ hooks[i].self = c

\* C22: a successful B.parent = A that moves B changes B's parent reference to
\* A, removes B from its former parent's child list (the others keep their
\* order) and appends B to A's child list after the existing children; every
\* other node's parent and every other node's children, B's own included,
\* are as before.  With A already B's parent nothing changes at all.
C22_SetParentFrame ==
    LET P == parent(Old, B)
    IN (call.op = "set_parent" /\ err = "ok") =>
          IF P = A THEN Unchanged
          ELSE /\ parent(Now, B) = A
               /\ \A n \in Nodes \ {B} : parent(Now, n) = parent(Old, n)
               /\ children(Now, A) = Append(children(Old, A), B)
               /\ P /= None => children(Now, P) = Without(children(Old, P), B)
               /\ \A n \in Nodes \ {A, P} : children(Now, n) = children(Old, n)
               /\ children(Now, B) = children(Old, B)

\* B, the first of its former parent's two children, moved to another parent:
\* the former parent keeps its other child, the new parent ends with B.
C22_Witness ==
    LET P == parent(Old, B)
    IN /\ call.op = "set_parent"
       /\ err = "ok"
       /\ P \notin {None, A}
       /\ Len(children(Old, P)) = 2
       /\ children(Old, P)[1] = B
       /\ children(Now, P) = << children(Old, P)[2] >>
       /\ children(Now, A)[Len(children(Now, A))] = B

\* C23: in N.children = L, once the duplicate check and the loop check ahead
\* of the batch have passed (_pre_attach_children has been called), no
\* child.parent = N of the batch raises LoopError: in every tree a hook of the
\* call sees and in the tree the call leaves, no member of L is N or an
\* ancestor of N.
C23_NoLoopErrorInBatch ==
    (call.op = "set_children" /\ hooks /= << >>) =>
        /\ err /= "LoopError"
        /\ \A c \in Range(L) :
              /\ c /= B
              /\ c \notin AncestorSet(Now, B)
              /\ \A i \in 1..Len(hooks) : c \notin AncestorSet(hooks[i].tree, B)

\* A completed batch of two members whose second member was a child of the
\* first: both were reparented under N one after the other.
C23_Witness ==
    /\ call.op = "set_children"
    /\ err = "ok"
    /\ Len(L) = 2
    /\ parent(Old, L[2]) = L[1]
    /\ parent(Old, L[1]) /= B
    /\ parent(Now, L[1]) = B
    /\ parent(Now, L[2]) = B

\* C24: when a hook raises during B.parent = Q while B had a parent P other
\* than Q, the error reaches the caller; raised by _post_detach or _pre_attach,
\* it leaves B detached and not reattached (B.parent is None, B is in neither
\* P.children nor Q.children, every other link is as before) with the
\* bidirectional invariant holding; raised by _pre_detach, it leaves the tree
\* unchanged.
C24_HookRaisesInSetParent ==
    LET P == parent(Old, B)
        last == hooks[Len(hooks)].hook
    IN (call.op = "set_parent" /\ err = "HookError" /\ P /= None) =>
          /\ last \in {"post_detach", "pre_attach"} =>
                /\ parent(Now, B) = None
                /\ B \notin Range(children(Now, P))
                /\ B \notin Range(children(Now, A))
                /\ children(Now, P) = Without(children(Old, P), B)
                /\ \A n \in Nodes \ {B} : parent(Now, n) = parent(Old, n)
                /\ \A n \in Nodes \ {P} : children(Now, n) = children(Old, n)
                /\ Bidirectional(Now)
          /\ last = "pre_detach" => Unchanged

\* _pre_attach raised after B had been detached from P: B is left a root.
C24_Witness ==
    /\ call.op = "set_parent"
    /\ err = "HookError"
    /\ parent(Old, B) \notin {None, A}
    /\ hooks[Len(hooks)].hook = "pre_attach"
    /\ parent(Now, B) = None
====
